---- MODULE Spec2Model ----
(***************************************************************************)
(* Model of streamlit_price_tracker.py: the price extraction functions,    *)
(* the two tables, the add / remove / view handlers of the dashboard, the  *)
(* background schedulers and the runs of update_all_prices.                *)
(*                                                                         *)
(* Representation.  A string is a sequence of one-character strings.  A    *)
(* float is a record [ok, n, k]: ok = FALSE is Python's None, otherwise    *)
(* the value is n / 10^k with no trailing zero in the fraction.  An        *)
(* absent element (select_one returning None) is the sequence NoElem.      *)
(* A URL is a sequence of its parts, so that 'amazon.' in url is a         *)
(* membership test on the parts.                                           *)
(***************************************************************************)
EXTENDS Integers, Sequences, FiniteSets, TLC

VARIABLES
    text, parsed, pphase,         \* parse_price_text: argument, result, call done
    surl, spage, scraped, sphase, \* detect_site_and_scrape: url, response, result, call done
    products,      \* table products: rows [id, name, url, desired, email]
    history,       \* table price_history: rows [id, pid, price, ts]
    now,           \* datetime.utcnow(), read by each PriceHistory(...) construction
    schedulers,    \* BackgroundSchedulers started and running, each with a price_updater job
    runs,          \* the executions of update_all_prices
    adds,          \* the executions of the Add / Update submit handler
    viewed,        \* the data frame the last View handler read
    notifs,        \* the calls of send_email_notification made so far
    calls,         \* their number
    bound          \* what the behaviours explored are held to: executions of the script,
                   \* timestamps handed out, browser sessions

pvars == <<text, parsed, pphase>>
svars == <<surl, spage, scraped, sphase>>
dvars == <<products, history, now, schedulers, runs, adds, viewed, notifs, calls, bound>>
vars == <<pvars, svars, dvars>>

(***************************************************************************)
(* Bounds of the model                                                     *)
(***************************************************************************)
MaxLen == 4        \* longest string handed to parse_price_text
MaxTexts == 2      \* most text nodes of a page
MaxClock == 2      \* timestamps handed out, so also the most observations ever written
MaxSchedulers == 4 \* executions of the script, each of which starts a scheduler
JobScripts == 3    \* the same two bounds for the behaviours of SpecJob
JobClock == 1
DashScripts == 4   \* the same two bounds for the behaviours of SpecDash
DashClock == 2
ViewScripts == 4   \* the same two bounds for the behaviours of SpecView
ViewClock == 2

(***************************************************************************)
(* Strings and floats                                                      *)
(***************************************************************************)
Digits == {"0", "1", "2"}
Chars == Digits \cup {".", ",", "$", "R", "s", " "}

IsDigit(ch) == ch \in Digits

DigitVal(ch) == CASE ch = "0" -> 0 [] ch = "1" -> 1 [] ch = "2" -> 2

None == [ok |-> FALSE, n |-> 0, k |-> 0]

RECURSIVE Norm(_, _)
Norm(n, k) == IF k > 0 /\ n % 10 = 0 THEN Norm(n \div 10, k - 1)
              ELSE [ok |-> TRUE, n |-> n, k |-> k]

RECURSIVE DigitsValue(_)
DigitsValue(s) == IF s = <<>> THEN 0
                  ELSE 10 * DigitsValue(SubSeq(s, 1, Len(s) - 1)) + DigitVal(s[Len(s)])

CountOf(s, c) == Cardinality({i \in 1..Len(s) : s[i] = c})

FirstIndex(s, c) == CHOOSE i \in 1..Len(s) : s[i] = c /\ \A j \in 1..(i - 1) : s[j] # c

\* Python's float() on a string of digits and dots; None where it raises ValueError.
PyFloat(s) ==
    IF CountOf(s, ".") > 1 \/ \A i \in 1..Len(s) : ~IsDigit(s[i]) THEN None
    ELSE LET ds == SelectSeq(s, IsDigit)
             k == IF CountOf(s, ".") = 0 THEN 0 ELSE Len(s) - FirstIndex(s, ".")
         IN Norm(DigitsValue(ds), k)

\* Truth value of an optional float: None and 0.0 are false.
Truthy(p) == p.ok /\ p.n # 0

IsPriceChar(ch) == IsDigit(ch) \/ ch = "." \/ ch = ","

NotComma(ch) == ch # ","

parse_price_text(t) ==
    IF t = <<>> THEN None
    ELSE LET filtered == SelectSeq(t, IsPriceChar)
         IN IF filtered = <<>> THEN None
            ELSE PyFloat(SelectSeq(filtered, NotComma))

(***************************************************************************)
(* The price a reader takes a price string to state: 'Rs.' is a currency   *)
(* mark, so its dot is no decimal separator.                               *)
(***************************************************************************)
RECURSIVE StripRs(_)
StripRs(t) ==
    IF Len(t) < 3 THEN t
    ELSE IF SubSeq(t, 1, 3) = <<"R", "s", ".">> THEN StripRs(SubSeq(t, 4, Len(t)))
         ELSE <<t[1]>> \o StripRs(Tail(t))

HasDigit(t) == \E i \in 1..Len(t) : IsDigit(t[i])

StatedValue(t) == PyFloat(SelectSeq(SelectSeq(StripRs(t), IsPriceChar), NotComma))

StringsUpTo(n) == UNION {[1..m -> Chars] : m \in 0..n}

(***************************************************************************)
(* Pages and the scrapers                                                  *)
(*                                                                         *)
(* A response is [kind, status, title, elems, meta, texts]: kind "exc" is  *)
(* requests.get raising; elems maps a CSS selector to the text of the      *)
(* element select_one finds (NoElem if none); meta is the content of       *)
(* meta[itemprop="price"] (NoElem if there is no such element, <<>> if it  *)
(* has no content); texts are the page's text nodes in document order.     *)
(***************************************************************************)
NoElem == <<"<none>">>

NoTitle == <<>>

amazon_selectors == <<"#priceblock_ourprice", "#priceblock_dealprice", ".a-price .a-offscreen">>

flipkart_selectors == <<"div._30jeq3._16Jk6d", "div._30jeq3">>

Selectors == {amazon_selectors[i] : i \in 1..Len(amazon_selectors)}
                 \cup {flipkart_selectors[i] : i \in 1..Len(flipkart_selectors)}

TailWindow == 200

InUrl(part, url) == \E i \in 1..Len(url) : url[i] = part

RECURSIVE Strip(_)
Strip(t) == IF t = <<>> THEN t
            ELSE IF Head(t) = " " THEN Strip(Tail(t))
            ELSE IF t[Len(t)] = " " THEN Strip(SubSeq(t, 1, Len(t) - 1))
            ELSE t

HasCurrencyMark(t) ==
    \/ \E i \in 1..Len(t) : t[i] = "$"
    \/ \E i \in 1..(Len(t) - 2) : SubSeq(t, i, i + 2) = <<"R", "s", ".">>

\* The loop of scrape_amazon_price / scrape_flipkart_price from selector i on.
RECURSIVE ScrapeSelectors(_, _, _)
ScrapeSelectors(elems, selectors, i) ==
    IF i > Len(selectors) THEN None
    ELSE LET el == elems[selectors[i]]
         IN IF el # NoElem /\ Strip(el) # <<>> /\ Truthy(parse_price_text(el))
            THEN parse_price_text(el)
            ELSE ScrapeSelectors(elems, selectors, i + 1)

scrape_amazon_price(soup) == ScrapeSelectors(soup.elems, amazon_selectors, 1)

scrape_flipkart_price(soup) == ScrapeSelectors(soup.elems, flipkart_selectors, 1)

LastN(s, n) == IF Len(s) <= n THEN s ELSE SubSeq(s, Len(s) - n + 1, Len(s))

\* The loop over possible[-200:] from node i on.
RECURSIVE ScanTexts(_, _)
ScanTexts(nodes, i) ==
    IF i > Len(nodes) THEN None
    ELSE LET txt == Strip(nodes[i])
         IN IF txt # <<>> /\ HasDigit(txt) /\ HasCurrencyMark(txt)
                  /\ Truthy(parse_price_text(txt))
            THEN parse_price_text(txt)
            ELSE ScanTexts(nodes, i + 1)

\* A variant that falls through from rule to rule.
detect_fall_through(url, resp) ==
    IF resp.kind = "exc" \/ resp.status # 200 THEN [title |-> NoTitle, price |-> None]
    ELSE LET site == IF InUrl("amazon.", url) THEN scrape_amazon_price(resp)
                     ELSE IF InUrl("flipkart.", url) THEN scrape_flipkart_price(resp)
                     ELSE None
             meta == IF resp.meta # NoElem /\ resp.meta # <<>>
                     THEN parse_price_text(resp.meta) ELSE None
         IN [title |-> resp.title,
             price |-> IF site.ok THEN site
                       ELSE IF meta.ok THEN meta
                       ELSE ScanTexts(LastN(resp.texts, TailWindow), 1)]

detect_site_and_scrape(url, resp) ==
    IF resp.kind = "exc" \/ resp.status # 200 THEN [title |-> NoTitle, price |-> None]
    ELSE IF InUrl("amazon.", url) THEN [title |-> resp.title, price |-> scrape_amazon_price(resp)]
    ELSE IF InUrl("flipkart.", url) THEN [title |-> resp.title, price |-> scrape_flipkart_price(resp)]
    ELSE IF resp.meta # NoElem /\ resp.meta # <<>>
         THEN [title |-> resp.title, price |-> parse_price_text(resp.meta)]
    ELSE [title |-> resp.title, price |-> ScanTexts(LastN(resp.texts, TailWindow), 1)]

NoPage == [kind |-> "exc", status |-> 0, title |-> NoTitle,
           elems |-> [s \in Selectors |-> NoElem], meta |-> NoElem, texts |-> <<>>]

NotFound == [NoPage EXCEPT !.kind = "http", !.status = 404]

(***************************************************************************)
(* The database, the schedulers, the runs and the dashboard handlers       *)
(***************************************************************************)
Runs == {1, 2}        \* update_all_prices executions that may be in progress together

Sessions == {1, 2}    \* browser sessions whose submit handler may be in progress together

NoEmail == "None"

\* What update_all_prices reads of a listed Product before it commits: id and url.
NoRef == [id |-> 0, url |-> <<>>]

Ref(row) == [id |-> row.id, url |-> row.url]

IdleRun == [pc |-> "idle", timer |-> FALSE, list |-> <<>>, idx |-> 0, expired |-> FALSE,
            p |-> NoRef, price |-> None, last |-> None, ts |-> 0]

\* The form's desired price and email are first read where the row is written (lines
\* 284-285, 289): the handler's state holds what the script has computed up to there.
IdleAdd == [pc |-> "idle", url |-> <<>>, name |-> <<>>, price |-> None, prod |-> 0, ts |-> 0]

\* The frame of the last View: the product, the rows read, and which execution of the
\* script read them.
NoView == [pid |-> 0, rows |-> <<>>, script |-> 0]

RECURSIVE Pow10(_)
Pow10(k) == IF k = 0 THEN 1 ELSE 10 * Pow10(k - 1)

\* a < b and a <= b on floats that are not None
Less(a, b) == a.n * Pow10(b.k) < b.n * Pow10(a.k)

LessEq(a, b) == a.n * Pow10(b.k) <= b.n * Pow10(a.k)

Float(d) == [ok |-> TRUE, n |-> d, k |-> 0]

\* desired_price if desired_price > 0 else None
Desired(d) == IF d > 0 THEN Float(d) ELSE None

\* notify_email or None
Email(e) == IF e = "" THEN NoEmail ELSE e

\* The id of a newly inserted row: INTEGER PRIMARY KEY takes the largest id plus one.
NewId(rows) == IF rows = {} THEN 1
               ELSE 1 + (CHOOSE i \in {r.id : r \in rows} : \A r \in rows : r.id <= i)

\* session.query(Product).all(), in id order
RECURSIVE QueryAll(_)
QueryAll(rows) ==
    IF rows = {} THEN <<>>
    ELSE LET first == CHOOSE r \in rows : \A q \in rows : r.id <= q.id
         IN <<Ref(first)>> \o QueryAll(rows \ {first})

ById(rows, id) == {r \in rows : r.id = id}

ByUrl(rows, url) == {r \in rows : r.url = url}

Of(hist, pid) == {h \in hist : h.pid = pid}

Latest(rows) == CHOOSE h \in rows : \A g \in rows : g.ts <= h.ts

\* ...filter(product_id == pid).order_by(timestamp.desc()).first(), then last.price
LastPrice(hist, pid) == IF Of(hist, pid) = {} THEN None ELSE Latest(Of(hist, pid)).price

\* SELECT * FROM price_history WHERE product_id = pid ORDER BY timestamp, newest first
RECURSIVE ReadHistoryDesc(_, _)
ReadHistoryDesc(hist, pid) ==
    IF Of(hist, pid) = {} THEN <<>>
    ELSE <<Latest(Of(hist, pid))>> \o ReadHistoryDesc(hist \ {Latest(Of(hist, pid))}, pid)

\* SELECT * FROM price_history WHERE product_id = pid ORDER BY timestamp
RECURSIVE ReadHistory(_, _)
ReadHistory(hist, pid) ==
    IF Of(hist, pid) = {} THEN <<>>
    ELSE ReadHistory(hist \ {Latest(Of(hist, pid))}, pid) \o <<Latest(Of(hist, pid))>>

\* session.query(PriceHistory).filter(PriceHistory.product_id == pid).delete()
DeleteHistory(hist, pid) == hist \ Of(hist, pid)

\* The conditions of lines 245-248 under which send_email_notification is called.
ShouldNotify(p, price, last) ==
    /\ p.desired.ok /\ LessEq(price, p.desired)
    /\ (~last.ok \/ Less(price, last))
    /\ p.email # NoEmail

\* What a call of send_email_notification meets: SMTP_HOST, SMTP_USER or SMTP_PASSWORD
\* is not set, the exchange with the server succeeds, or it raises.
SmtpOutcomes == {"unconfigured", "sent", "error"}

\* A notifier that lets the transmission error out.
send_email_raising(outcome) ==
    IF outcome = "unconfigured" THEN "False"
    ELSE IF outcome = "sent" THEN "True" ELSE "raised"

\* The value send_email_notification returns.
send_email_notification(outcome) ==
    IF outcome = "unconfigured" THEN "False"
    ELSE IF outcome = "sent" THEN "True" ELSE "False"

\* An exception leaves update_all_prices or the handler.
Raised(rec) == [rec EXCEPT !.pc = "raised"]

\* The for loop moves to its next product, or ends and the session is closed.
NextProduct(rn) ==
    IF rn.idx < Len(rn.list)
    THEN [rn EXCEPT !.pc = "fetch", !.idx = @ + 1, !.p = NoRef, !.price = None,
                    !.last = None, !.ts = 0]
    ELSE IdleRun

\* A skip that gives up the run.
SkipEndsRun(rn) == Raised(rn)

\* price is None: print and continue (lines 233-235)
SkipProduct(rn) == NextProduct(rn)

\* A lookup that never finds the product.
FindNothing(rows, url) == {}

\* session.query(Product).filter(Product.url == url).first()
FindProduct(rows, url) == ByUrl(rows, url)

Stopped(rec) == rec.pc \in {"idle", "raised"}

\* lines 253-255, run by each of the n executions of the script that an interaction causes
StartSchedulers(n) == schedulers + n <= bound.scripts /\ schedulers' = schedulers + n

StartScheduler == StartSchedulers(1)

ShopUrl == <<"shop.", "io/3">>

TrackUrls == {<<"amazon.", "in/dp/1">>, ShopUrl}

DesiredInputs == {0, 1}

EmailInputs == {"", "e"}

PricePage(t) == [kind |-> "http", status |-> 200, title |-> <<"T">>,
                 elems |-> [s \in Selectors |-> IF s = amazon_selectors[1] THEN t ELSE NoElem],
                 meta |-> NoElem, texts |-> <<t>>]

Responses == {NoPage, NotFound, PricePage(<<"s">>), PricePage(<<"$", "1">>), PricePage(<<"$", "2">>)}

\* Every way a fetch ends without a price, and one price.
JobResponses == {NoPage, NotFound, PricePage(<<"s">>), PricePage(<<"$", "1">>)}

\* A probe without title and price, and one with both.
DashResponses == {NoPage, PricePage(<<"$", "1">>)}

DbIdle ==
    /\ products = {} /\ history = {} /\ now = 1 /\ schedulers = 0
    /\ bound = [scripts |-> 0, clock |-> 0, sessions |-> {}]
    /\ runs = [r \in Runs |-> IdleRun] /\ adds = [s \in Sessions |-> IdleAdd]
    /\ viewed = NoView /\ notifs = {} /\ calls = 0

\* The server has started and a first browser session has loaded the page: the tables
\* exist and are empty, one scheduler runs.
InitWith(scripts, clock, sessions) ==
    /\ products = {} /\ history = {} /\ now = 1
    /\ schedulers = 1
    /\ runs = [r \in Runs |-> IdleRun]
    /\ adds = [s \in Sessions |-> IdleAdd]
    /\ viewed = NoView /\ notifs = {} /\ calls = 0
    /\ bound = [scripts |-> scripts, clock |-> clock, sessions |-> sessions]
    /\ text = <<>> /\ parsed = None /\ pphase = "off"
    /\ surl = <<>> /\ spage = <<>> /\ scraped = <<>> /\ sphase = "off"

Init == InitWith(MaxSchedulers, MaxClock, {1})

\* A browser session runs one execution of the script at a time: it is busy while its
\* submit handler or the price update it started by hand is in progress.
BusySessions == Cardinality({s \in Sessions : ~Stopped(adds[s])})
                    + Cardinality({r \in Runs : ~Stopped(runs[r]) /\ ~runs[r].timer})

SessionFree == BusySessions < Cardinality(bound.sessions)

(******************************* update_all_prices *************************)
FreeRun(r) == Stopped(runs[r]) /\ \A q \in Runs : q < r => ~Stopped(runs[q])

\* lines 228-230
StartRun(r, timer) ==
    /\ FreeRun(r)
    /\ runs' = [runs EXCEPT ![r] =
                  IF products = {} THEN IdleRun
                  ELSE [IdleRun EXCEPT !.pc = "fetch", !.timer = timer,
                                       !.list = QueryAll(products), !.idx = 1]]

\* The interval of a scheduler elapses; its job runs unless its last instance still does,
\* so the timer-driven runs in progress are fewer than the schedulers.
JobsRunning == Cardinality({r \in Runs : ~Stopped(runs[r]) /\ runs[r].timer})

Tick ==
    /\ JobsRunning < schedulers
    /\ \E r \in Runs : StartRun(r, TRUE)
    /\ UNCHANGED <<bound, pvars, svars, products, history, now, schedulers, adds, viewed, notifs, calls>>

\* 'Run price update now' (lines 345-347)
ManualRun ==
    /\ SessionFree
    /\ StartScheduler
    /\ \E r \in Runs : StartRun(r, FALSE)
    /\ UNCHANGED <<bound, pvars, svars, products, history, now, adds, viewed, notifs, calls>>

\* lines 232-235: p.url reloads p if the session has committed, then the page is fetched
Fetch(r, resp) ==
    LET rn == runs[r]
        obj == rn.list[rn.idx]
        rows == ById(products, obj.id)
    IN /\ rn.pc = "fetch"
       /\ runs' = [runs EXCEPT ![r] =
                     IF rn.expired /\ rows = {} THEN Raised(rn)
                     ELSE LET p == IF rn.expired THEN Ref(CHOOSE q \in rows : TRUE) ELSE obj
                              res == detect_site_and_scrape(p.url, resp)
                          IN IF ~res.price.ok THEN SkipProduct(rn)
                             ELSE [rn EXCEPT !.pc = "read", !.p = p, !.price = res.price]]
       /\ UNCHANGED <<bound, pvars, svars, products, history, now, schedulers, adds, viewed, notifs, calls>>

\* lines 237-240: the last price is read and the observation is built with the current time
ReadLast(r) ==
    LET rn == runs[r]
    IN /\ rn.pc = "read"
       /\ now <= bound.clock
       /\ runs' = [runs EXCEPT ![r] = [rn EXCEPT !.pc = "write", !.ts = now,
                                                 !.last = LastPrice(history, rn.p.id)]]
       /\ now' = now + 1
       /\ UNCHANGED <<bound, pvars, svars, products, history, schedulers, adds, viewed, notifs, calls>>

\* lines 241-249: the observation is committed, p.name reloads p, then the threshold check
\* and the notification; prev is the newest price the table held before the insert
Write(r, outcome) ==
    LET rn == runs[r]
        rows == ById(products, rn.p.id)
    IN /\ rn.pc = "write"
       /\ history' = history \cup {[id |-> NewId(history), pid |-> rn.p.id,
                                    price |-> rn.price, ts |-> rn.ts]}
       /\ IF rows = {}
          THEN /\ runs' = [runs EXCEPT ![r] = Raised(rn)]
               /\ UNCHANGED <<notifs, calls>>
          ELSE LET p == CHOOSE q \in rows : TRUE
                   ret == send_email_notification(outcome)
               IN IF ShouldNotify(p, rn.price, rn.last)
                  THEN /\ calls' = calls + 1
                       /\ notifs' = notifs \cup {[pid |-> p.id, price |-> rn.price, old |-> rn.last,
                                                  prev |-> LastPrice(history, rn.p.id), ret |-> ret]}
                       /\ runs' = [runs EXCEPT ![r] =
                                     IF ret = "raised" THEN Raised(rn)
                                     ELSE NextProduct([rn EXCEPT !.expired = TRUE])]
                  ELSE /\ runs' = [runs EXCEPT ![r] = NextProduct([rn EXCEPT !.expired = TRUE])]
                       /\ UNCHANGED <<notifs, calls>>
       /\ UNCHANGED <<bound, pvars, svars, products, now, schedulers, adds, viewed>>

(******************************* dashboard *********************************)
\* A browser session opens or reloads the page: the script runs, no widget acts.
PageLoad ==
    /\ SessionFree
    /\ StartScheduler
    /\ UNCHANGED <<bound, pvars, svars, products, history, now, runs, adds, viewed, notifs, calls>>

\* lines 272-279: 'Add / Update' is submitted and the page is probed
AddSubmit(s, url, resp) ==
    /\ SessionFree
    /\ Stopped(adds[s])
    /\ \A q \in Sessions : q < s => ~Stopped(adds[q])
    /\ StartScheduler
    /\ adds' = [adds EXCEPT ![s] =
                  IF url = <<>> THEN IdleAdd
                  ELSE LET res == detect_site_and_scrape(url, resp)
                       IN [IdleAdd EXCEPT !.pc = "query", !.url = url,
                                          !.name = IF res.title # <<>> THEN res.title ELSE url,
                                          !.price = res.price]]
    /\ UNCHANGED <<bound, pvars, svars, products, history, now, runs, viewed, notifs, calls>>

\* lines 281-282
AddQuery(s) ==
    LET a == adds[s]
        found == FindProduct(products, a.url)
    IN /\ a.pc = "query"
       /\ adds' = [adds EXCEPT ![s] =
                     IF found # {} THEN [a EXCEPT !.pc = "update", !.prod = (CHOOSE q \in found : TRUE).id]
                     ELSE [a EXCEPT !.pc = "insert"]]
       /\ UNCHANGED <<bound, pvars, svars, products, history, now, schedulers, runs, viewed, notifs, calls>>

\* lines 283-287: UPDATE products ... WHERE id = prod; no such row raises StaleDataError
AddUpdate(s, desired_price, notify_email) ==
    LET a == adds[s]
        rows == ById(products, a.prod)
    IN /\ a.pc = "update"
       /\ IF rows = {}
          THEN /\ adds' = [adds EXCEPT ![s] = Raised(a)]
               /\ UNCHANGED products
          ELSE /\ products' = (products \ rows) \cup
                      {[q EXCEPT !.name = a.name, !.desired = Desired(desired_price),
                                 !.email = Email(notify_email)] : q \in rows}
               /\ adds' = [adds EXCEPT ![s] = IdleAdd]
       /\ UNCHANGED <<bound, pvars, svars, history, now, schedulers, runs, viewed, notifs, calls>>

\* lines 289-291: INSERT; url is unique, a second row with it raises IntegrityError
AddInsert(s, desired_price, notify_email) ==
    LET a == adds[s]
    IN /\ a.pc = "insert"
       /\ IF ByUrl(products, a.url) # {}
          THEN /\ adds' = [adds EXCEPT ![s] = Raised(a)]
               /\ UNCHANGED products
          ELSE /\ products' = products \cup {[id |-> NewId(products), name |-> a.name, url |-> a.url,
                                              desired |-> Desired(desired_price),
                                              email |-> Email(notify_email)]}
               /\ adds' = [adds EXCEPT ![s] =
                             IF a.price.ok THEN [a EXCEPT !.pc = "stamp", !.prod = NewId(products)]
                             ELSE IdleAdd]
       /\ UNCHANGED <<bound, pvars, svars, history, now, schedulers, runs, viewed, notifs, calls>>

\* line 294: newp.id reloads newp, and the observation is built with the current time
AddStamp(s) ==
    LET a == adds[s]
    IN /\ a.pc = "stamp"
       /\ IF ById(products, a.prod) = {}
          THEN /\ adds' = [adds EXCEPT ![s] = Raised(a)]
               /\ UNCHANGED now
          ELSE /\ now <= bound.clock
               /\ adds' = [adds EXCEPT ![s] = [a EXCEPT !.pc = "hist", !.ts = now]]
               /\ now' = now + 1
       /\ UNCHANGED <<bound, pvars, svars, products, history, schedulers, runs, viewed, notifs, calls>>

\* lines 295-298
AddHist(s) ==
    LET a == adds[s]
    IN /\ a.pc = "hist"
       /\ history' = history \cup {[id |-> NewId(history), pid |-> a.prod,
                                    price |-> a.price, ts |-> a.ts]}
       /\ adds' = [adds EXCEPT ![s] = IdleAdd]
       /\ UNCHANGED <<bound, pvars, svars, products, now, schedulers, runs, viewed, notifs, calls>>

\* lines 322-331: 'View' of a listed product
View(p) ==
    /\ p \in products
    /\ SessionFree
    /\ StartScheduler
    /\ viewed' = [pid |-> p.id, rows |-> ReadHistory(history, p.id), script |-> schedulers']
    /\ UNCHANGED <<bound, pvars, svars, products, history, now, runs, adds, notifs, calls>>

\* lines 332-337: 'Remove' of a listed product; st.experimental_rerun runs the script again
Remove(p) ==
    /\ p \in products
    /\ SessionFree
    /\ StartSchedulers(2)
    /\ history' = DeleteHistory(history, p.id)
    /\ products' = products \ {p}
    /\ UNCHANGED <<bound, pvars, svars, now, runs, adds, viewed, notifs, calls>>

AddInputs(s, urls, resps) == \E url \in urls \cup {<<>>}, resp \in resps : AddSubmit(s, url, resp)

AddWrite(s) ==
    \E d \in DesiredInputs, e \in EmailInputs : AddUpdate(s, d, e) \/ AddInsert(s, d, e)

\* Overlapping runs of the price-check job, started by the schedulers and by hand, while
\* one browser session adds, updates and removes a product.
Next ==
    \/ PageLoad
    \/ Tick
    \/ ManualRun
    \/ \E r \in Runs, resp \in Responses : Fetch(r, resp)
    \/ \E r \in Runs : ReadLast(r)
    \/ \E r \in Runs, o \in SmtpOutcomes : Write(r, o)
    \/ AddInputs(1, {ShopUrl}, Responses)
    \/ AddQuery(1)
    \/ AddWrite(1)
    \/ AddStamp(1)
    \/ AddHist(1)
    \/ \E p \in products : Remove(p)

Spec == Init /\ [][Next]_vars

NoRun == \A r \in Runs : Stopped(runs[r])

\* One run of the price-check job at a time over the products one browser session adds.
JobNext ==
    \/ NoRun /\ Tick
    \/ \E resp \in JobResponses : Fetch(1, resp)
    \/ ReadLast(1)
    \/ \E o \in SmtpOutcomes : Write(1, o)
    \/ AddInputs(1, TrackUrls, JobResponses)
    \/ AddQuery(1)
    \/ AddWrite(1)
    \/ AddStamp(1)
    \/ AddHist(1)

SpecJob == InitWith(JobScripts, JobClock, {1}) /\ [][JobNext]_vars

\* Two browser sessions that add, update and remove products.
DashNext ==
    \/ \E s \in Sessions : AddInputs(s, TrackUrls, DashResponses)
    \/ \E s \in Sessions : AddQuery(s)
    \/ \E s \in Sessions : AddWrite(s)
    \/ \E s \in Sessions : AddStamp(s)
    \/ \E s \in Sessions : AddHist(s)
    \/ \E p \in products : Remove(p)

SpecDash == InitWith(DashScripts, DashClock, Sessions) /\ [][DashNext]_vars

\* One browser session that adds, views and removes a product, and one run of the
\* price-check job at a time.
ViewNext ==
    \/ NoRun /\ Tick
    \/ \E resp \in Responses : Fetch(1, resp)
    \/ ReadLast(1)
    \/ \E o \in SmtpOutcomes : Write(1, o)
    \/ AddInputs(1, {ShopUrl}, Responses)
    \/ AddQuery(1)
    \/ AddWrite(1)
    \/ AddStamp(1)
    \/ AddHist(1)
    \/ \E p \in products : View(p)
    \/ \E p \in products : Remove(p)

SpecView == InitWith(ViewScripts, ViewClock, {1}) /\ [][ViewNext]_vars

(***************************************************************************)
(* Claims about the runs, the handlers and the schedulers                  *)
(***************************************************************************)
RunWrites(r) == runs[r].pc = "write" /\ runs'[r] # runs[r]

AddWritesHistory(s) == adds[s].pc = "hist" /\ adds'[s] # adds[s]

\* C1: no notification is attempted for an observation whose price is not strictly lower
\* than the price of the product's newest observation stored when it was written.
C1_NotifiedOnlyBelowStored == \A n \in notifs : ~n.prev.ok \/ Less(n.price, n.prev)

\* C2: whichever path writes the first observation of a product that has a desired
\* price (and an email to notify, without which there is nobody to send to), a price at
\* or below the desired price brings exactly one call of send_email_notification.
C2_FirstObservationNotified ==
    [][\A h \in history' \ history :
          (/\ Of(history, h.pid) = {}
           /\ \E p \in products : /\ p.id = h.pid /\ p.email # NoEmail
                                   /\ p.desired.ok /\ LessEq(h.price, p.desired))
          => calls' = calls + 1]_vars

\* C3: every observation refers to a product that exists (no orphaned rows).
C3_NoOrphans == \A h \in history : ById(products, h.pid) # {}

UniqueUrl == \A p \in products, q \in products : p.url = q.url => p = q

\* C4: at most one product row exists per URL; a submission whose URL is tracked takes
\* the update branch, which overwrites name, desired price and email of that row and
\* leaves its id, its url, the other rows, the number of rows and the observations as
\* they are; an insert of a tracked URL creates no row.
C4_UpsertByUrl ==
    /\ []UniqueUrl
    /\ [][\A s \in Sessions :
            /\ (adds[s].pc = "query" /\ adds'[s] # adds[s] /\ ByUrl(products, adds[s].url) # {})
               => /\ adds'[s].pc = "update"
                  /\ \E p \in ByUrl(products, adds[s].url) : adds'[s].prod = p.id
            /\ (adds[s].pc = "update" /\ adds'[s].pc = "idle")
               => /\ history' = history
                  /\ Cardinality(products') = Cardinality(products)
                  /\ \E p \in products, d \in DesiredInputs, e \in EmailInputs :
                        /\ p.id = adds[s].prod
                        /\ products' = (products \ {p}) \cup
                              {[id |-> p.id, url |-> p.url, name |-> adds[s].name,
                                desired |-> Desired(d), email |-> Email(e)]}
            /\ (adds[s].pc = "insert" /\ adds'[s] # adds[s] /\ ByUrl(products, adds[s].url) # {})
               => products' = products /\ history' = history]_vars

\* C4 witness: a product that was inserted with a priced probe, hence under the page's
\* title, and now bears its url as name: a later submission has overwritten it.
C4_Witness == \E p \in products : p.name = p.url /\ Of(history, p.id) # {}

C7_SkipWithoutPrice ==
    [][\A r \in Runs : (runs[r].pc = "fetch" /\ runs'[r] # runs[r]) =>
          \/ runs'[r].pc = "read" /\ runs'[r].price.ok /\ runs'[r].idx = runs[r].idx
          \/ /\ history' = history /\ products' = products
             /\ notifs' = notifs /\ calls' = calls
             /\ IF runs[r].idx < Len(runs[r].list)
                THEN /\ runs'[r].pc = "fetch" /\ runs'[r].idx = runs[r].idx + 1
                     /\ runs'[r].list = runs[r].list
                ELSE runs'[r].pc = "idle"]_vars

\* C7 witness: a run skipped its first product (it has committed nothing) and is about
\* to write the observation of its second.
C7_Witness ==
    \E r \in Runs : /\ runs[r].pc = "write" /\ runs[r].idx = 2 /\ ~runs[r].expired
                    /\ Of(history, runs[r].list[1].id) = {}

\* C8: send_email_notification returns True or False and never raises; after a call the
\* observation that caused it is in the table, the run goes on with its next product
\* (or ends as a run that went through), and the call was the only one of the step.
C8_NotifyFailureNotRaised ==
    /\ [](\A n \in notifs : n.ret \in {"True", "False"})
    /\ [][\A r \in Runs : (RunWrites(r) /\ calls' # calls) =>
            /\ calls' = calls + 1
            /\ \E h \in history' : h.pid = runs[r].p.id /\ h.price = runs[r].price /\ h.ts = runs[r].ts
            /\ IF runs[r].idx < Len(runs[r].list)
               THEN runs'[r].pc = "fetch" /\ runs'[r].idx = runs[r].idx + 1
               ELSE runs'[r].pc = "idle"]_vars

\* C8 witness: a notification failed, its observation is in the table, and the run is at
\* its next product.
C8_Witness ==
    \E n \in notifs, r \in Runs :
        /\ n.ret = "False"
        /\ runs[r].pc = "fetch" /\ runs[r].idx = 2 /\ runs[r].list[1].id = n.pid
        /\ \E h \in history : h.pid = n.pid /\ h.price = n.price

\* C10: at most one scheduler with a price_updater job is running, so at most one
\* timer-driven run is in progress.
C10_OneTimer == schedulers <= 1 /\ JobsRunning <= 1

(***************************************************************************)
(* Specification of one call of parse_price_text                           *)
(***************************************************************************)
ParseInit ==
    /\ text \in StringsUpTo(MaxLen)
    /\ parsed = None
    /\ pphase = "call"
    /\ surl = <<>> /\ spage = <<>> /\ scraped = <<>> /\ sphase = "off"
    /\ DbIdle

ParseCall ==
    /\ pphase = "call"
    /\ parsed' = parse_price_text(text)
    /\ pphase' = "returned"
    /\ UNCHANGED <<text, svars, dvars>>

ParseNext == ParseCall

SpecParse == ParseInit /\ [][ParseNext]_vars

\* C5: parse_price_text returns the stated value of every string that has digits and
\* at most one decimal separator (besides grouping commas and currency marks such as
\* '$' and 'Rs.'), and None for every string without a digit.
C5_ParseCorrect ==
    pphase = "returned" =>
        /\ ~HasDigit(text) => parsed = None
        /\ (HasDigit(text) /\ CountOf(StripRs(text), ".") <= 1) => parsed = StatedValue(text)

(***************************************************************************)
(* Specification of one call of detect_site_and_scrape                     *)
(***************************************************************************)
ScrapeUrls == {<<"amazon.", "in/dp/1">>, <<"flipkart.", "com/p/2">>, <<"shop.", "io/3">>}

ElemTexts == {NoElem, <<"$", "0">>, <<"$", "2">>}

MetaContents == {NoElem, <<>>, <<"1">>, <<"s">>}

TextNodes == {<<"$", "1", "2">>, <<"1">>, <<"$", "0">>}

Pages == [kind : {"http"}, status : {200}, title : {NoTitle, <<"T">>},
          elems : [Selectors -> ElemTexts], meta : MetaContents,
          texts : UNION {[1..m -> TextNodes] : m \in 0..MaxTexts}]

NoResult == [title |-> NoTitle, price |-> None]

ScrapeInit ==
    /\ surl \in ScrapeUrls
    /\ spage \in {p \in Pages : p.title = <<"T">>} \cup {NoPage, NotFound}
    /\ scraped = NoResult
    /\ sphase = "call"
    /\ text = <<>> /\ parsed = None /\ pphase = "off"
    /\ DbIdle

ScrapeCall ==
    /\ sphase = "call"
    /\ scraped' = detect_site_and_scrape(surl, spage)
    /\ sphase' = "returned"
    /\ UNCHANGED <<surl, spage, pvars, dvars>>

ScrapeNext == ScrapeCall

SpecScrape == ScrapeInit /\ [][ScrapeNext]_vars

Fetched == sphase = "returned" /\ spage.kind = "http" /\ spage.status = 200

\* Whether selector i of a site's list, the meta element, text node i yields a price.
SelectorYields(selectors, i) ==
    LET el == spage.elems[selectors[i]]
    IN el # NoElem /\ parse_price_text(el).ok /\ parse_price_text(el).n # 0

MetaDecides == spage.meta # NoElem /\ Len(spage.meta) > 0

TextYields(i) ==
    LET t == Strip(spage.texts[i])
    IN HasDigit(t) /\ HasCurrencyMark(t) /\ parse_price_text(t).ok /\ parse_price_text(t).n # 0

SiteSelectors == IF InUrl("amazon.", surl) THEN amazon_selectors
                 ELSE IF InUrl("flipkart.", surl) THEN flipkart_selectors
                 ELSE <<>>

\* C9 as claimed: the rules form one chain (site selectors, then meta, then text scan),
\* and no price is returned only if every rule of the chain fails.
C9_FallThroughChain ==
    (Fetched /\ scraped.price = None) =>
        /\ \A i \in 1..Len(SiteSelectors) : ~SelectorYields(SiteSelectors, i)
        /\ ~(MetaDecides /\ parse_price_text(spage.meta).ok)
        /\ \A i \in 1..Len(spage.texts) : ~TextYields(i)

\* C9 as amended: the URL and the page pick one rule, and no rule falls through to the
\* next.  For an amazon. or flipkart. URL only the site's selectors count: the result is
\* the price of the first selector that yields a non-zero price, and no price if none
\* does.  For another URL a meta price element with content decides alone (its parsed
\* content, or no price); only without one are the text nodes scanned, and the first
\* currency-marked text that parses to a non-zero price gives the result.
C9_OneRuleDecides ==
    Fetched =>
        /\ scraped.title = spage.title
        /\ SiteSelectors # <<>> =>
              \/ /\ scraped.price = None
                 /\ \A i \in 1..Len(SiteSelectors) : ~SelectorYields(SiteSelectors, i)
              \/ \E i \in 1..Len(SiteSelectors) :
                    /\ SelectorYields(SiteSelectors, i)
                    /\ \A j \in 1..(i - 1) : ~SelectorYields(SiteSelectors, j)
                    /\ scraped.price = parse_price_text(spage.elems[SiteSelectors[i]])
        /\ (SiteSelectors = <<>> /\ MetaDecides) =>
              scraped.price = parse_price_text(spage.meta)
        /\ (SiteSelectors = <<>> /\ ~MetaDecides) =>
              \/ /\ scraped.price = None
                 /\ \A i \in 1..Len(spage.texts) : ~TextYields(i)
              \/ \E i \in 1..Len(spage.texts) :
                    /\ TextYields(i)
                    /\ \A j \in 1..(i - 1) : ~TextYields(j)
                    /\ scraped.price = parse_price_text(Strip(spage.texts[i]))

\* C9 witness: an amazon. page whose selectors yield nothing while its meta element and
\* its text hold a price, and the call returned no price.
C9_Witness ==
    /\ Fetched /\ InUrl("amazon.", surl)
    /\ \A i \in 1..Len(amazon_selectors) : ~SelectorYields(amazon_selectors, i)
    /\ MetaDecides /\ parse_price_text(spage.meta).ok
    /\ \E i \in 1..Len(spage.texts) : TextYields(i)
    /\ scraped.price = None

====
